---- MODULE Spec2Model ----
(***************************************************************************)
(* Model of the book routes of the bookstore backend                       *)
(* (src/unnamed/part_000): the /read/:id handler with its text-to-blocks   *)
(* parser, and the /download/:id handler.                                   *)
(*                                                                         *)
(* A JavaScript string is a sequence of characters; a character is a       *)
(* one-character TLA+ string.  The two precomposed letters the model uses  *)
(* are written "e_acute" and "E_acute", and U+0301 is "comb_acute".        *)
(***************************************************************************)
EXTENDS Integers, Sequences, FiniteSets, TLC

\* ------------------------------------------------------------ characters

LowerSeq == <<"a","b","c","d","e","f","g","h","i","j","k","l","m",
              "n","o","p","q","r","s","t","u","v","w","x","y","z">>
UpperSeq == <<"A","B","C","D","E","F","G","H","I","J","K","L","M",
              "N","O","P","Q","R","S","T","U","V","W","X","Y","Z">>
Range(s) == {s[i] : i \in DOMAIN s}
LowerChars == Range(LowerSeq)
UpperChars == Range(UpperSeq)
DigitChars == {"0","1","2","3","4","5","6","7","8","9"}
NL == "\n"
CR == "\r"
\* \s of a JavaScript regular expression, and what String.prototype.trim removes
WhiteSpace == {" ", "\t", NL, CR}
\* \w of a JavaScript regular expression
WordChars == LowerChars \cup UpperChars \cup DigitChars \cup {"_"}
\* what . of a regular expression without the s flag does not match
LineTerminators == {NL, CR}

IndexIn(seq, c) == CHOOSE i \in DOMAIN seq : seq[i] = c

\* the lower-case letter of each upper-case letter, and the reverse
LowerOf == [c \in UpperChars |-> LowerSeq[IndexIn(UpperSeq, c)]]
UpperOf == [c \in LowerChars |-> UpperSeq[IndexIn(LowerSeq, c)]]

toLowerCaseChar(c) ==
    IF c \in UpperChars THEN LowerOf[c]
    ELSE IF c = "E_acute" THEN "e_acute"
    ELSE c

toUpperCaseChar(c) ==
    IF c \in LowerChars THEN UpperOf[c]
    ELSE IF c = "e_acute" THEN "E_acute"
    ELSE c

toLowerCase(s) == [i \in DOMAIN s |-> toLowerCaseChar(s[i])]
toUpperCase(s) == [i \in DOMAIN s |-> toUpperCaseChar(s[i])]

\* ------------------------------------------------------------ string helpers

Min(S) == CHOOSE x \in S : \A y \in S : x <= y
Max(S) == CHOOSE x \in S : \A y \in S : x >= y

\* the positions of s, in order
Positions(s) == [i \in 1..Len(s) |-> i]

\* the positions of s that hold no white space
InkAt(s) == {i \in DOMAIN s : s[i] \notin WhiteSpace}

\* s without its leading white space
TrimStart(s) ==
    IF InkAt(s) = {} THEN <<>> ELSE SubSeq(s, Min(InkAt(s)), Len(s))

\* s without its trailing white space
TrimEnd(s) ==
    IF InkAt(s) = {} THEN <<>> ELSE SubSeq(s, 1, Max(InkAt(s)))

\* String.prototype.trim
trim(s) == TrimEnd(TrimStart(s))

\* s.replace(/[set]/g, "")
RemoveChars(s, set) == SelectSeq(s, LAMBDA c : c \notin set)

\* position i of s ends a maximal run of characters of set
EndsRun(s, set, i) == s[i] \in set /\ (i = Len(s) \/ s[i + 1] \notin set)

\* s.replace(/[set]+/g, rep): every maximal run of characters of set becomes rep
ReplaceRuns(s, set, rep) ==
    LET kept == SelectSeq(Positions(s),
                          LAMBDA i : s[i] \notin set \/ EndsRun(s, set, i))
    IN  [k \in 1..Len(kept) |-> IF s[kept[k]] \in set THEN rep ELSE s[kept[k]]]

\* the number of maximal runs of characters of set in s
CountRuns(s, set) == Cardinality({i \in DOMAIN s : EndsRun(s, set, i)})

\* s starts with the lower-case word w, compared case-insensitively
StartsWithCI(s, w) ==
    /\ Len(s) >= Len(w)
    /\ toLowerCase(SubSeq(s, 1, Len(w))) = w

\* ------------------------------------------------------------ makeAnchorId

\* String.prototype.normalize("NFKD") on the characters of the model
NFKDChar(c) ==
    IF c = "e_acute" THEN <<"e", "comb_acute">>
    ELSE IF c = "E_acute" THEN <<"E", "comb_acute">>
    ELSE <<c>>

RECURSIVE normalizeNFKD(_)
normalizeNFKD(s) ==
    IF s = <<>> THEN <<>>
    ELSE IF Len(s) = 1 THEN NFKDChar(s[1])
    ELSE LET h == Len(s) \div 2
         IN  normalizeNFKD(SubSeq(s, 1, h)) \o normalizeNFKD(SubSeq(s, h + 1, Len(s)))

\* the combining diacritical marks, U+0300 to U+036F
CombiningMarks == {"comb_acute"}

\* the character class of the first punctuation replace; the typographic
\* quotes, the backquote and the dots of the class are outside the model's
\* alphabet
PunctClass == {"\"", "'", ",", ":", ";", "(", ")", "{", "}", "[", "]",
               "/", "\\", "?", "<", ">", "@", "#", "%", "^", "&", "*", "=",
               "+", "~", "|"}

\* [a-z0-9\s-]
SlugKeep == LowerChars \cup DigitChars \cup WhiteSpace \cup {"-"}

StripOutside(s, keep) == SelectSeq(s, LAMBDA c : c \in keep)

makeAnchorId(title) ==
    LET s1 == toLowerCase(title)
        s2 == normalizeNFKD(s1)
        s3 == RemoveChars(s2, CombiningMarks)
        s4 == RemoveChars(s3, PunctClass)
        s5 == StripOutside(s4, SlugKeep)
        s6 == trim(s5)
        s7 == ReplaceRuns(s6, WhiteSpace, "-")
    IN  ReplaceRuns(s7, {"-"}, "-")

\* ------------------------------------------------------------ the parser

\* the length of the match of /\r?\n\r?\n+/ at position i of s, 0 when none
\* the number of consecutive line feeds of s from position i on
NewlinesFrom(s, i) ==
    Min({j \in i..Len(s) : s[j] # NL} \cup {Len(s) + 1}) - i

SepLenAt(s, i) ==
    LET a == IF s[i] = CR THEN i + 1 ELSE i
        b == a + 1
        c == IF b + 1 <= Len(s) /\ s[b] = CR /\ s[b + 1] = NL THEN b + 1 ELSE b
    IN  IF a <= Len(s) /\ s[a] = NL /\ NewlinesFrom(s, c) > 0
        THEN (c - i) + NewlinesFrom(s, c)
        ELSE 0

\* data.split(/\r?\n\r?\n+/): the pieces of s from position i on, cut at each
\* leftmost match
RECURSIVE SplitFrom(_, _)
SplitFrom(s, i) ==
    LET starts == {j \in i..Len(s) : SepLenAt(s, j) > 0}
    IN  IF starts = {} THEN <<SubSeq(s, i, Len(s))>>
        ELSE LET j == Min(starts)
             IN  <<SubSeq(s, i, j - 1)>> \o SplitFrom(s, j + SepLenAt(s, j))

splitParas(data) == SplitFrom(data, 1)

\* p.replace(/\r?\n/g, " "): a carriage return before a line feed goes with it
newlinesToSpaces(p) ==
    LET kept == SelectSeq(Positions(p),
                          LAMBDA i : ~(p[i] = CR /\ i < Len(p) /\ p[i + 1] = NL))
    IN  [k \in 1..Len(kept) |-> IF p[kept[k]] = NL THEN " " ELSE p[kept[k]]]

cleanPara(p) == trim(newlinesToSpaces(p))

\* rawParasOf without .filter(Boolean): empty candidates are kept
rawParasUnfiltered(data) ==
    LET pieces == splitParas(data)
    IN  [i \in DOMAIN pieces |-> cleanPara(pieces[i])]

\* data.split(...).map(...).filter(Boolean)
rawParasOf(data) ==
    LET pieces  == splitParas(data)
        cleaned == [i \in DOMAIN pieces |-> cleanPara(pieces[i])]
    IN  SelectSeq(cleaned, LAMBDA p : p # <<>>)

\* [IVXLCDM] under the i flag
RomanChars == {"i", "v", "x", "l", "c", "d", "m"}

\* the length of the longest prefix of s made of roman numeral letters
RomanPrefixLen(s) ==
    Min({j \in DOMAIN s : toLowerCaseChar(s[j]) \notin RomanChars}
        \cup {Len(s) + 1}) - 1

\* keyword\b at the start of s, under the i flag
KeywordAtStart(s, w) ==
    /\ StartsWithCI(s, w)
    /\ (Len(s) = Len(w) \/ s[Len(w) + 1] \notin WordChars)

\* /^\s*(?:PART\b|CHAPTER\b|[IVXLCDM]+\.\s+)/i
chapterLineRegex(para) ==
    LET s == TrimStart(para)
        k == RomanPrefixLen(s)
    IN  \/ KeywordAtStart(s, <<"p","a","r","t">>)
        \/ KeywordAtStart(s, <<"c","h","a","p","t","e","r">>)
        \/ /\ k >= 1
           /\ Len(s) >= k + 2
           /\ s[k + 1] = "."
           /\ s[k + 2] \in WhiteSpace

MaxHeadingLen == 120
MaxHeadingWords == 12

\* para.split(/\s+/).length
wordCount(para) == CountRuns(para, WhiteSpace) + 1

\* the second operand of the heading test
shortUppercase(para) ==
    /\ para = toUpperCase(para)
    /\ Len(para) < MaxHeadingLen
    /\ wordCount(para) < MaxHeadingWords

isHeading(para) == chapterLineRegex(para) \/ shortUppercase(para)

ImagePrefix == <<"[","i","m","a","g","e",":">>

\* imageRegex with (.*) for (.+): nothing is needed between colon and bracket
imageRegexEmptyUrl(para) ==
    /\ Len(para) >= Len(ImagePrefix) + 1
    /\ StartsWithCI(para, ImagePrefix)
    /\ para[Len(para)] = "]"
    /\ \A i \in (Len(ImagePrefix) + 1)..(Len(para) - 1) :
          para[i] \notin LineTerminators

\* /^\[image:(.+)\]$/i
imageRegex(para) ==
    /\ Len(para) >= Len(ImagePrefix) + 2
    /\ StartsWithCI(para, ImagePrefix)
    /\ para[Len(para)] = "]"
    /\ \A i \in (Len(ImagePrefix) + 1)..(Len(para) - 1) :
          para[i] \notin LineTerminators

\* match[1].trim()
imageUrl(para) == trim(SubSeq(para, Len(ImagePrefix) + 1, Len(para) - 1))

\* the predicate of book.chapters.find(...)
titleMatches(ch, para) ==
    /\ ch.title # <<>>
    /\ toLowerCase(trim(ch.title)) = toLowerCase(trim(para))

\* book.chapters.find(...): the index of the first known chapter whose trimmed
\* title equals the paragraph case-insensitively, 0 when there is none
dbMatchIndex(known, para) ==
    IF \E i \in DOMAIN known : titleMatches(known[i], para)
    THEN CHOOSE i \in DOMAIN known :
            /\ titleMatches(known[i], para)
            /\ \A j \in 1..(i - 1) : ~titleMatches(known[j], para)
    ELSE 0

\* anchorOf that ignores the stored anchor id
anchorOfDerived(ch) == makeAnchorId(ch.title)

\* dbMatch.anchorId || makeAnchorId(dbMatch.title): a known chapter has a
\* stored anchor id when the field is a non-empty string, and a missing field
\* is the empty string here
anchorOf(ch) == IF ch.anchorId # <<>> THEN ch.anchorId ELSE makeAnchorId(ch.title)

ChapterBlock(title, anchorId) ==
    [type |-> "chapter", title |-> title, anchorId |-> anchorId,
     url |-> <<>>, text |-> <<>>]
ImageBlock(url) ==
    [type |-> "image", title |-> <<>>, anchorId |-> <<>>,
     url |-> url, text |-> <<>>]
ParagraphBlock(text) ==
    [type |-> "paragraph", title |-> <<>>, anchorId |-> <<>>,
     url |-> <<>>, text |-> text]

\* blockOf with the image test ahead of the heading test
blockOfImageFirst(known, para) ==
    LET m == dbMatchIndex(known, para)
    IN  IF m # 0 THEN ChapterBlock(known[m].title, anchorOf(known[m]))
        ELSE IF imageRegex(para) THEN ImageBlock(imageUrl(para))
        ELSE IF isHeading(para) THEN ChapterBlock(para, makeAnchorId(para))
        ELSE ParagraphBlock(para)

\* the block one paragraph pushes
blockOf(known, para) ==
    LET m == dbMatchIndex(known, para)
    IN  IF m # 0 THEN ChapterBlock(known[m].title, anchorOf(known[m]))
        ELSE IF isHeading(para) THEN ChapterBlock(para, makeAnchorId(para))
        ELSE IF imageRegex(para) THEN ImageBlock(imageUrl(para))
        ELSE ParagraphBlock(para)

\* if (!chapters.find((c) => c.anchorId === anchorId)) chapters.push(...)
pushChapter(chapters, title, anchorId) ==
    IF \E i \in DOMAIN chapters : chapters[i].anchorId = anchorId
    THEN chapters
    ELSE Append(chapters, [title |-> title, anchorId |-> anchorId])

\* the for loop over rawParas: the blocks and the chapter list after the
\* first n paragraphs
RECURSIVE scan(_, _, _)
scan(known, paras, n) ==
    IF n = 0 THEN [blocks |-> <<>>, chapters |-> <<>>]
    ELSE LET prev == scan(known, paras, n - 1)
             b    == blockOf(known, paras[n])
         IN  [blocks   |-> Append(prev.blocks, b),
              chapters |-> IF b.type = "chapter"
                           THEN pushChapter(prev.chapters, b.title, b.anchorId)
                           ELSE prev.chapters]

\* fallbackChapters that runs whenever the book has known chapters
fallbackAlways(known, chapters) ==
    IF Len(known) > 0
    THEN [i \in DOMAIN known |->
            [title |-> known[i].title, anchorId |-> anchorOf(known[i])]]
    ELSE chapters

\* the known-chapters fallback after the loop
fallbackChapters(known, chapters) ==
    IF Len(known) > 0 /\ Len(chapters) = 0
    THEN [i \in DOMAIN known |->
            [title |-> known[i].title, anchorId |-> anchorOf(known[i])]]
    ELSE chapters

NoContent == <<"No content available.">>

renderBlock(b) ==
    IF b.type = "paragraph" THEN <<"<p>">> \o b.text \o <<"</p>">>
    ELSE IF b.type = "chapter" THEN <<"<h2>">> \o b.title \o <<"</h2>">>
    ELSE IF b.type = "image"
         THEN <<"<img src=\"">> \o b.url \o <<"\" alt=\"image\" />">>
    ELSE <<>>

RECURSIVE joinLines(_)
joinLines(lines) ==
    IF lines = <<>> THEN <<>>
    ELSE IF Len(lines) = 1 THEN lines[1]
    ELSE lines[1] \o <<NL>> \o joinLines(Tail(lines))

\* blocks.map(...).join("\n") || "No content available."
renderContent(blocks) ==
    LET joined == joinLines([i \in DOMAIN blocks |-> renderBlock(blocks[i])])
    IN  IF joined = <<>> THEN NoContent ELSE joined

\* ------------------------------------------------------------ inputs
\* The paragraph candidates the stored texts are built from.
\* keyword heading, all upper case
ChapterOne == <<"C","H","A","P","T","E","R"," ","O","N","E">>
\* keyword heading in mixed case; the same anchor id as CHAPTER ONE
ChapterOneLower == <<"C","h","a","p","t","e","r"," ","o","n","e",":">>
\* plain text with an inner line break; PART without a word boundary
PartyOn == <<"P","a","r","t","y",CR,NL,"o","n",".">>
\* image reference
ImagePic == <<"[","i","m","a","g","e",":","p","i","c",".","p","n","g","]">>
\* image reference with nothing between the colon and the bracket
ImageEmpty == <<"[","i","m","a","g","e",":","]">>
\* image reference whose url is one space
ImageBlank == <<"[","I","m","a","g","e",":"," ","]">>
\* image reference in upper case
ImageUpper == <<"[","I","M","A","G","E",":","X","]">>
\* punctuation only
SceneBreak == <<"*"," ","*"," ","*">>
\* upper case, leading hyphen next to a space, a diacritic
HyphenCafe == <<"-"," ","C","A","F","E_acute">>
\* plain lower-case word, the title of a known chapter in another case
IntroLower == <<"i","n","t","r","o">>
\* roman numeral heading in mixed case, with line breaks around it
RomanFour == <<NL,"I","V","."," ","F","i","n",CR,NL,CR>>
\* upper case, exactly MaxHeadingWords words
TwelveWords == <<"A"," ","A"," ","A"," ","A"," ","A"," ","A"," ",
                 "A"," ","A"," ","A"," ","A"," ","A"," ","A">>
\* white space only
Blank == <<" ">>
\* upper case, exactly MaxHeadingLen characters
LongUpper == [i \in 1..MaxHeadingLen |-> "A"]
Chunks == {ChapterOne, ChapterOneLower, PartyOn, ImagePic, ImageEmpty, ImageBlank,
           ImageUpper, SceneBreak, HyphenCafe, IntroLower, RomanFour, TwelveWords,
           Blank, LongUpper}
TitleIntro == <<"I","n","t","r","o">>
TitleIntroPadded == <<" ","I","n","t","r","o"," ">>
TitleIntroUpper == <<"I","N","T","R","O">>
TitleChapterOne == <<"C","h","a","p","t","e","r"," ","O","n","e">>
TitleImage == <<"[","I","M","A","G","E",":","P","I","C",".","P","N","G","]">>
AnchorIntro == <<"c","h","-","i","n","t","r","o">>
AnchorOne == <<"c","1">>
AnchorImg == <<"i","m","g">>

\* the most paragraph candidates of a stored text
MaxParas == 2
\* the longest stored file name
MaxFileLen == 2

\* sequences over S of length at most n
RECURSIVE SeqsUpTo(_, _)
SeqsUpTo(S, n) ==
    IF n = 0 THEN {<<>>}
    ELSE LET shorter == SeqsUpTo(S, n - 1)
         IN  shorter \cup {Append(q, x) : q \in shorter, x \in S}

BlankLine == <<NL, NL>>

RECURSIVE joinChunks(_)
joinChunks(cs) ==
    IF cs = <<>> THEN <<>>
    ELSE IF Len(cs) = 1 THEN cs[1]
    ELSE cs[1] \o BlankLine \o joinChunks(Tail(cs))

\* the contents a book file may have
Texts == {joinChunks(cs) : cs \in SeqsUpTo(Chunks, MaxParas)}

Known(title, anchorId) == [title |-> title, anchorId |-> anchorId]

\* the values of book.chapters
KnownChapterLists ==
    { <<>>,
      <<Known(TitleIntro, AnchorIntro)>>,
      <<Known(TitleIntroPadded, <<>>)>>,
      <<Known(TitleIntro, <<>>), Known(TitleIntroUpper, <<>>)>>,
      <<Known(<<>>, <<>>), Known(TitleChapterOne, AnchorOne)>>,
      <<Known(TitleImage, AnchorImg)>> }

FileChars == {"a", ".", "/"}
FileNames == SeqsUpTo(FileChars, MaxFileLen)

\* a book record: hasFile is FALSE when book.file is undefined
BookRec(hasFile, file, chapters) ==
    [found |-> TRUE, hasFile |-> hasFile, file |-> file, chapters |-> chapters]
NoBook == [found |-> FALSE, hasFile |-> FALSE, file |-> <<>>, chapters |-> <<>>]

StoredName == <<"a", "a">>

\* the books of the database
Books ==
    {BookRec(TRUE, f, <<>>) : f \in FileNames}
    \cup {BookRec(FALSE, <<>>, <<>>)}
    \cup {BookRec(TRUE, StoredName, kc) : kc \in KnownChapterLists}

\* ------------------------------------------------------------ paths

\* s.split("/")
RECURSIVE splitSlash(_, _)
splitSlash(s, cur) ==
    IF s = <<>> THEN <<cur>>
    ELSE IF Head(s) = "/" THEN <<cur>> \o splitSlash(Tail(s), <<>>)
    ELSE splitSlash(Tail(s), Append(cur, Head(s)))

RECURSIVE stripTrailingSlashes(_)
stripTrailingSlashes(s) ==
    IF s # <<>> /\ s[Len(s)] = "/"
    THEN stripTrailingSlashes(SubSeq(s, 1, Len(s) - 1)) ELSE s

\* path.basename (posix): the last segment, trailing separators ignored
basename(p) ==
    LET t    == stripTrailingSlashes(p)
        segs == splitSlash(t, <<>>)
    IN  IF t = <<>> THEN <<>> ELSE segs[Len(segs)]

\* the normalisation path.join applies to an absolute path: the resolved
\* path as the sequence of its segments
RECURSIVE resolveSegs(_, _)
resolveSegs(segs, acc) ==
    IF segs = <<>> THEN acc
    ELSE LET g == Head(segs)
         IN  IF g = <<>> \/ g = <<".">> THEN resolveSegs(Tail(segs), acc)
             ELSE IF g = <<".", ".">>
                  THEN resolveSegs(Tail(segs),
                                   IF acc = <<>> THEN acc
                                   ELSE SubSeq(acc, 1, Len(acc) - 1))
             ELSE resolveSegs(Tail(segs), Append(acc, g))

\* path.join(a, b, c, d): the non-empty arguments joined by "/" and normalised
RECURSIVE joinArgs(_)
joinArgs(args) ==
    IF args = <<>> THEN <<>>
    ELSE IF Head(args) = <<>> THEN joinArgs(Tail(args))
    ELSE <<"/">> \o Head(args) \o joinArgs(Tail(args))

pathJoin(args) == resolveSegs(splitSlash(joinArgs(args), <<>>), <<>>)

\* __dirname of the route module, written without its leading "/"
DirName == <<"a","p","p","/","r","o","u","t","e">>
DotDot == <<".", ".">>
BooksName == <<"b","o","o","k","s">>

\* path.join(__dirname, "..", "books", safeFile)
safeFileOf(file) == basename(file)
filePathOf(file) == pathJoin(<<DirName, DotDot, BooksName, safeFileOf(file)>>)

BooksDir == <<<<"a","p","p">>, BooksName>>

\* the storage: one regular file in the books directory
RegularFiles == {Append(BooksDir, StoredName)}
Directories == {SubSeq(BooksDir, 1, n) : n \in 0..Len(BooksDir)}

\* existsSync that finds every path
existsSyncAlways(path) == TRUE

existsSync(path) == path \in RegularFiles \cup Directories

\* ------------------------------------------------------------ the handlers

VARIABLES
    pc,        \* where the request in progress stands
    route,     \* "read" or "download", "none" when no request is in progress
    threw,     \* the book lookup rejected
    book,      \* what the book lookup returned, NoBook for null
    filePath,  \* [set, segs]: the path looked up on storage, once computed
    ioErr,     \* fs.readFile called back with an error
    data,      \* the text fs.readFile called back with
    rawParas,  \* the paragraph candidates of the text, once split
    res,       \* the response sent
    nres       \* the number of responses sent to the request in progress

vars == <<pc, route, threw, book, filePath, ioErr, data, rawParas, res, nres>>

NoPath == [set |-> FALSE, segs |-> <<>>]
NoBlocks == <<>>

Response(status, error) ==
    [status |-> status, error |-> error, blocks |-> NoBlocks, chapters |-> <<>>,
     content |-> <<>>, file |-> <<>>, download |-> <<>>]
NoResponse == Response(0, "")

Init ==
    /\ pc = "idle"
    /\ route = "none"
    /\ threw = FALSE
    /\ book = NoBook
    /\ filePath = NoPath
    /\ ioErr = FALSE
    /\ data = <<>>
    /\ rawParas = <<>>
    /\ res = NoResponse
    /\ nres = 0

\* getBookById: the book stored under the id, null when there is none; either
\* query may reject
getBookById(target, rejects) ==
    [threw |-> rejects, book |-> IF rejects THEN NoBook ELSE target]

\* a request arrives and the handler awaits getBookById(req.params.id)
Request(r) ==
    /\ pc = "idle"
    /\ \E target \in Books \cup {NoBook}, rejects \in BOOLEAN :
          LET got == getBookById(target, rejects)
          IN  /\ threw' = got.threw
              /\ book' = got.book
    /\ route' = r
    /\ pc' = "lookup"
    /\ filePath' = NoPath
    /\ ioErr' = FALSE
    /\ data' = <<>>
    /\ rawParas' = <<>>
    /\ res' = NoResponse
    /\ nres' = 0

ReadRequest == Request("read")
DownloadRequest == Request("download")

Send(response) ==
    /\ res' = response
    /\ nres' = nres + 1

\* the read handler from the lookup's result to the call of fs.readFile
ReadAfterLookup ==
    /\ pc = "lookup"
    /\ route = "read"
    /\ UNCHANGED <<route, threw, book, ioErr, data, rawParas>>
    /\ IF threw
       THEN /\ Send(Response(500, "Failed to read book"))
            /\ pc' = "done"
            /\ UNCHANGED filePath
       ELSE IF ~book.found
       THEN /\ Send(Response(404, "Book not found"))
            /\ pc' = "done"
            /\ UNCHANGED filePath
       ELSE IF ~book.hasFile
       THEN \* path.basename(undefined) throws, and the catch answers
            /\ Send(Response(500, "Failed to read book"))
            /\ pc' = "done"
            /\ UNCHANGED filePath
       ELSE LET path == filePathOf(book.file)
            IN  /\ filePath' = [set |-> TRUE, segs |-> path]
                /\ IF ~existsSync(path)
                   THEN /\ Send(Response(404, "Book file not found on server"))
                        /\ pc' = "done"
                   ELSE /\ pc' = "reading"
                        /\ UNCHANGED <<res, nres>>

\* the body of the fs.readFile callback after rawParas is computed
parseBook(bk, paras) ==
    LET scanned == scan(bk.chapters, paras, Len(paras))
    IN  [status   |-> 200,
         error    |-> "",
         blocks   |-> scanned.blocks,
         chapters |-> fallbackChapters(bk.chapters, scanned.chapters),
         content  |-> renderContent(scanned.blocks),
         file     |-> bk.file,
         download |-> <<>>]

\* fs.readFile calls back: with an error (always, for a directory), or with
\* the text of the file
ReadFileCallback ==
    /\ pc = "reading"
    /\ UNCHANGED <<route, threw, book, filePath>>
    /\ pc' = "done"
    /\ \/ /\ ioErr' = TRUE
          /\ data' = <<>>
          /\ rawParas' = <<>>
          /\ Send(Response(500, "Failed to load book file"))
       \/ /\ filePath.segs \in RegularFiles
          /\ \E text \in Texts :
                /\ ioErr' = FALSE
                /\ data' = text
                /\ rawParas' = rawParasOf(text)
                /\ Send(parseBook(book, rawParas'))

\* the download handler from the lookup's result to its response
DownloadAfterLookup ==
    /\ pc = "lookup"
    /\ route = "download"
    /\ UNCHANGED <<route, threw, book, ioErr, data, rawParas>>
    /\ pc' = "done"
    /\ IF threw
       THEN /\ Send(Response(500, "Failed to download book"))
            /\ UNCHANGED filePath
       ELSE IF ~book.found \/ ~book.hasFile \/ book.file = <<>>
       THEN /\ Send(Response(404, "Book file not found"))
            /\ UNCHANGED filePath
       ELSE LET path == filePathOf(book.file)
            IN  /\ filePath' = [set |-> TRUE, segs |-> path]
                /\ IF ~existsSync(path)
                   THEN Send(Response(404, "File not found on server"))
                   ELSE Send([Response(200, "") EXCEPT
                                 !.file = book.file,
                                 !.download = basename(book.file)])

\* the request is over: nothing of it is kept, and the router waits for the
\* next one
Finish ==
    /\ pc = "done"
    /\ pc' = "idle"
    /\ route' = "none"
    /\ threw' = FALSE
    /\ book' = NoBook
    /\ filePath' = NoPath
    /\ ioErr' = FALSE
    /\ data' = <<>>
    /\ rawParas' = <<>>
    /\ res' = NoResponse
    /\ nres' = 0

Next ==
    \/ ReadRequest
    \/ DownloadRequest
    \/ ReadAfterLookup
    \/ ReadFileCallback
    \/ DownloadAfterLookup
    \/ Finish

Spec == Init /\ [][Next]_vars

\* ------------------------------------------------------------ properties

\* the read handler has answered
ReadDone == pc = "done" /\ route = "read"
\* the read handler has answered with the parsed book
ReadOk == ReadDone /\ res.status = 200
\* the non-empty paragraph candidates of the text read, in source order
ParasRead == rawParas

EqualsCI(a, b) == toLowerCase(a) = toLowerCase(b)

\* the paragraph equals a known chapter title, case-insensitively
EqualsKnownTitle(known, para) ==
    \E k \in DOMAIN known : known[k].title # <<>> /\ EqualsCI(known[k].title, para)

\* the paragraph equals a known chapter title with the white space around the
\* title removed, case-insensitively
EqualsTrimmedKnownTitle(known, para) ==
    \E k \in DOMAIN known :
        known[k].title # <<>> /\ EqualsCI(trim(known[k].title), para)

\* rule (2): a keyword or roman-numeral prefix, or short and equal to its own
\* upper-casing
HeadingRule(para) ==
    \/ chapterLineRegex(para)
    \/ /\ Len(para) < MaxHeadingLen
       /\ wordCount(para) < MaxHeadingWords
       /\ toUpperCase(para) = para

\* what lies between "[image:" and the closing bracket, when para has that form
HasImageForm(para) ==
    /\ Len(para) >= Len(ImagePrefix) + 1
    /\ StartsWithCI(para, ImagePrefix)
    /\ para[Len(para)] = "]"
ImageInner(para) == SubSeq(para, Len(ImagePrefix) + 1, Len(para) - 1)

\* rule (3): the bracketed form with at least one character, none a line break
ImageRule(para) ==
    /\ HasImageForm(para)
    /\ LET inner == ImageInner(para)
       IN  inner # <<>> /\ \A i \in DOMAIN inner : inner[i] \notin {NL, CR}

RuleType(isKnown, para) ==
    IF isKnown \/ HeadingRule(para) THEN "chapter"
    ELSE IF ImageRule(para) THEN "image"
    ELSE "paragraph"

\* block b was built from paragraph para
BuiltFrom(b, known, para) ==
    \/ b.type = "paragraph" /\ b.text = para
    \/ b.type = "image" /\ b.url = trim(ImageInner(para))
    \/ b.type = "chapter" /\ b.title = para
    \/ b.type = "chapter"
       /\ \E k \in DOMAIN known : b.title = known[k].title

\* C1 (as stated): a read emits one block per non-empty paragraph candidate, in
\* source order, typed by the first applicable rule: equal to a known chapter
\* title case-insensitively, heading, image, else paragraph.
C1_Original ==
    ReadOk =>
        LET paras == ParasRead
        IN  /\ Len(res.blocks) = Len(paras)
            /\ \A i \in DOMAIN paras :
                  /\ paras[i] # <<>>
                  /\ res.blocks[i].type =
                        RuleType(EqualsKnownTitle(book.chapters, paras[i]), paras[i])
                  /\ BuiltFrom(res.blocks[i], book.chapters, paras[i])

\* C1 (amended): the same, with rule (1) comparing the paragraph to the known
\* chapter title after the white space around the title is removed.
C1_Classification ==
    ReadOk =>
        LET paras == ParasRead
        IN  /\ Len(res.blocks) = Len(paras)
            /\ \A i \in DOMAIN paras :
                  /\ paras[i] # <<>>
                  /\ res.blocks[i].type =
                        RuleType(EqualsTrimmedKnownTitle(book.chapters, paras[i]), paras[i])
                  /\ BuiltFrom(res.blocks[i], book.chapters, paras[i])

\* a read whose text holds a padded known title's paragraph and an image
C1_Witness ==
    /\ ReadOk
    /\ Len(res.blocks) = 2
    /\ book.chapters = <<Known(TitleIntroPadded, <<>>)>>
    /\ ParasRead[1] = IntroLower
    /\ res.blocks[1].type = "chapter"
    /\ res.blocks[2].type = "image"

AnchorChars == LowerChars \cup DigitChars \cup {"-"}

WellFormedAnchor(a) ==
    /\ \A i \in DOMAIN a : a[i] \in AnchorChars
    /\ a # <<>> => a[1] # "-" /\ a[Len(a)] # "-"

\* C2: every anchor id makeAnchorId derives holds only lower-case
\* alphanumerics and hyphens and neither begins nor ends with a hyphen.  The
\* ids observed are those of the chapter blocks of heading paragraphs.
C2_AnchorIdWellFormed ==
    ReadOk =>
        LET paras == ParasRead
        IN  \A i \in DOMAIN res.blocks :
                (res.blocks[i].type = "chapter"
                   /\ ~EqualsTrimmedKnownTitle(book.chapters, paras[i]))
                => WellFormedAnchor(res.blocks[i].anchorId)

\* C3: every chapter block of a read carries a non-empty anchor id.
C3_ChapterAnchorNonEmpty ==
    ReadOk =>
        \A i \in DOMAIN res.blocks :
            res.blocks[i].type = "chapter" => res.blocks[i].anchorId # <<>>

\* C4: the chapter list of a read never holds two entries with the same
\* anchor id.
C4_NoDuplicateAnchors ==
    ReadOk =>
        \A i, j \in DOMAIN res.chapters :
            i # j => res.chapters[i].anchorId # res.chapters[j].anchorId

\* C5: a paragraph that equals a known chapter title case-insensitively becomes
\* a chapter block, whose anchor id is the stored anchor id of the matched
\* known chapter (the first one that matches) when it has one, and the id
\* derived from its title otherwise.
C5_KnownTitleMatch ==
    ReadOk =>
        LET paras == ParasRead
        IN  \A i \in DOMAIN paras :
                EqualsKnownTitle(book.chapters, paras[i]) =>
                    LET m == Min({k \in DOMAIN book.chapters :
                                    book.chapters[k].title # <<>>
                                    /\ EqualsCI(trim(book.chapters[k].title),
                                                paras[i])})
                        ch == book.chapters[m]
                    IN  /\ res.blocks[i].type = "chapter"
                        /\ res.blocks[i].title = ch.title
                        /\ ch.anchorId # <<>> =>
                              res.blocks[i].anchorId = ch.anchorId
                        /\ ch.anchorId = <<>> =>
                              res.blocks[i].anchorId = makeAnchorId(ch.title)

\* a paragraph matched a known chapter of another case that stores an anchor id
C5_Witness ==
    /\ ReadOk
    /\ book.chapters = <<Known(TitleIntro, AnchorIntro)>>
    /\ LET paras == ParasRead
       IN  \E i \in DOMAIN paras :
              /\ paras[i] = IntroLower
              /\ res.blocks[i].anchorId = AnchorIntro

\* C6 (as stated): every paragraph of the form [image:U], U empty included,
\* yields an image block whose url is U trimmed.
C6_Original ==
    ReadOk =>
        LET paras == ParasRead
        IN  \A i \in DOMAIN paras :
                HasImageForm(paras[i]) =>
                    /\ res.blocks[i].type = "image"
                    /\ res.blocks[i].url = trim(ImageInner(paras[i]))

\* C6 (amended): a paragraph of the form [image:U] that rules (1) and (2) do
\* not make a chapter yields an image block whose url is U trimmed when U
\* holds at least one character and no line break, and a paragraph block
\* otherwise; [image:] yields a paragraph block.
C6_ImageBlocks ==
    ReadOk =>
        LET paras == ParasRead
        IN  \A i \in DOMAIN paras :
                (HasImageForm(paras[i])
                   /\ ~EqualsTrimmedKnownTitle(book.chapters, paras[i])
                   /\ ~HeadingRule(paras[i]))
                => LET inner == ImageInner(paras[i])
                   IN  IF inner # <<>>
                          /\ \A k \in DOMAIN inner : inner[k] \notin {NL, CR}
                       THEN /\ res.blocks[i].type = "image"
                            /\ res.blocks[i].url = trim(inner)
                       ELSE /\ res.blocks[i].type = "paragraph"
                            /\ res.blocks[i].text = paras[i]

\* [image:] became a paragraph block and [Image: ] an image with the empty url
C6_Witness ==
    /\ ReadOk
    /\ ParasRead = <<ImageEmpty, ImageBlank>>
    /\ res.blocks[1].type = "paragraph"
    /\ res.blocks[2].type = "image"
    /\ res.blocks[2].url = <<>>

\* the chapter list the known chapters give: one entry each, in stored order,
\* with the stored anchor id or else the derived one
KnownChapterList(known) ==
    [k \in DOMAIN known |->
        [title    |-> known[k].title,
         anchorId |-> IF known[k].anchorId # <<>> THEN known[k].anchorId
                      ELSE makeAnchorId(known[k].title)]]

\* C7 (as stated): a text that is empty after trimming yields no blocks, no
\* chapters and the placeholder content, for every book record.
C7_Original ==
    (ReadOk /\ trim(data) = <<>>) =>
        /\ res.blocks = <<>>
        /\ res.chapters = <<>>
        /\ res.content = NoContent

\* C7 (amended): a text that is empty after trimming yields no blocks and the
\* placeholder content; its chapter list is empty when the book has no known
\* chapters and is the list the known chapters give otherwise.
C7_EmptyInput ==
    (ReadOk /\ trim(data) = <<>>) =>
        /\ res.blocks = <<>>
        /\ res.content = NoContent
        /\ res.chapters = KnownChapterList(book.chapters)

\* a white-space-only text was read for a book with known chapters
C7_Witness ==
    /\ ReadOk
    /\ data # <<>>
    /\ trim(data) = <<>>
    /\ book.chapters # <<>>
    /\ res.chapters # <<>>

OnStorage(path) ==
    \/ path = <<<<"a","p","p">>, <<"b","o","o","k","s">>, <<"a","a">>>>
    \/ path = <<<<"a","p","p">>, <<"b","o","o","k","s">>>>
    \/ path = <<<<"a","p","p">>>>
    \/ path = <<>>

IsSuccess(r) == r.status = 200 /\ r.content # <<>>
IsNotFound(r) == r.status = 404
IsReadFailure(r) == r.status = 500 /\ r.error = "Failed to load book file"

C9_LookupInsideBooksDir ==
    filePath.set =>
        /\ Len(filePath.segs) >= Len(BooksDir)
        /\ SubSeq(filePath.segs, 1, Len(BooksDir)) = BooksDir

NoChapterBlock == \A i \in DOMAIN res.blocks : res.blocks[i].type # "chapter"

\* C10 (as stated): with known chapters of which no paragraph matched a title,
\* the chapter list is the one the known chapters give, also when the heading
\* heuristic made some paragraphs chapters.
C10_Original ==
    (ReadOk
       /\ book.chapters # <<>>
       /\ LET paras == ParasRead
          IN  \A i \in DOMAIN paras :
                 ~EqualsTrimmedKnownTitle(book.chapters, paras[i]))
    => res.chapters = KnownChapterList(book.chapters)

\* C10 (amended): with known chapters, the chapter list is the one the known
\* chapters give when the scan made no paragraph a chapter, by a title match
\* or by the heading heuristic; when it made one, the list holds the scan's
\* entries, each the anchor id of a chapter block.
C10_Fallback ==
    (ReadOk /\ book.chapters # <<>>) =>
        IF NoChapterBlock
        THEN res.chapters = KnownChapterList(book.chapters)
        ELSE /\ res.chapters # <<>>
             /\ \A c \in DOMAIN res.chapters :
                   \E i \in DOMAIN res.blocks :
                       /\ res.blocks[i].type = "chapter"
                       /\ res.blocks[i].anchorId = res.chapters[c].anchorId
                       /\ res.blocks[i].title = res.chapters[c].title

\* a text of plain paragraphs was read for a book that stores an anchor id
C10_Witness ==
    /\ ReadOk
    /\ book.chapters = <<Known(TitleIntro, AnchorIntro)>>
    /\ Len(res.blocks) = 2
    /\ NoChapterBlock
    /\ res.chapters = <<Known(TitleIntro, AnchorIntro)>>
====
